---- MODULE Spec2Model ----
(***************************************************************************)
(* Model of proxy.py (vc-500w_autocut): a TCP relay between a print client *)
(* and a VC-500W printer.  One listener thread accepts connections and     *)
(* starts one client_thread per connection; each client_thread relays      *)
(* chunks between its client socket and its printer socket, passing every  *)
(* chunk through modify_xml; SIGINT/SIGTERM run handle_exit.               *)
(*                                                                         *)
(* Byte strings.  A chunk of bytes is the record [pad, txt]: `pad' zero    *)
(* bytes (binary image data) followed by the bytes of the sequence `txt',  *)
(* one one-character string per byte.  This keeps the program's real size  *)
(* limits (50000 and 20000000 bytes) without enumerating 50000-element     *)
(* sequences; len, find, slicing and + are computed exactly on it.         *)
(*                                                                         *)
(* Steps.  Threads interleave at every point where one reads or writes     *)
(* what another can see: stop_event, a thread's being alive, the listening *)
(* socket.  A statement that touches only the thread's own locals and its  *)
(* own sockets is joined to the step before it.  The peers are the         *)
(* environment: what recv returns, whether select reports a socket, and    *)
(* whether an I/O call raises are chosen freely.  A select that times out  *)
(* changes no state and is a stuttering step.  bind, listen and accept are *)
(* taken to succeed.                                                       *)
(***************************************************************************)
EXTENDS Integers, Sequences, FiniteSets, TLC

\* ------------------------------------------------------------ configuration

MAX_DATA_IMG == 20000000

MAX_DATA_XML == 50000

\* ------------------------------------------------------------------ bounds

\* Sessions the listener may accept in one run.
NumSessions == 2

\* Chunks delivered to the proxy (read in the forwarding loop or while
\* draining) and I/O failures raised (connect, recv, sendall, shutdown), in total.
MaxEvents == 2

\* Termination signals delivered to the process.
MaxSignals == 2

\* Pieces concatenated to build an input of modify_xml.
MaxPieces == 3

\* ------------------------------------------------------------ byte strings

\* b'...' literals, one string per byte.
END_TAG == <<"<", "/", "p", "r", "i", "n", "t", ">">>

NEW_LINE_TXT == <<"<", "c", "u", "t", "m", "o", "d", "e", ">", "f", "u", "l", "l",
                  "<", "/", "c", "u", "t", "m", "o", "d", "e", ">", "\n">>

Bytes(t) == [pad |-> 0, txt |-> t]

EMPTY == Bytes(<<>>)

\* len(data)
BLen(d) == d.pad + Len(d.txt)

\* data[:n]
BTake(d, n) ==
    IF n <= d.pad THEN [pad |-> n, txt |-> <<>>]
    ELSE [pad |-> d.pad, txt |-> SubSeq(d.txt, 1, n - d.pad)]

\* data[n:]
BDrop(d, n) ==
    IF n <= d.pad THEN [pad |-> d.pad - n, txt |-> d.txt]
    ELSE [pad |-> 0, txt |-> SubSeq(d.txt, n - d.pad + 1, Len(d.txt))]

\* a + b  (b starts with text whenever a ends with text)
BCat(a, b) ==
    IF a.txt = <<>> THEN [pad |-> a.pad + b.pad, txt |-> b.txt]
    ELSE [pad |-> a.pad, txt |-> a.txt \o b.txt]

\* sub occurs in t at 0-based offset i
OccursAt(t, sub, i) ==
    /\ i + Len(sub) <= Len(t)
    /\ \A k \in 1..Len(sub) : t[i + k] = sub[k]

\* bytes.rfind: the offset of the last occurrence, or -1
BRFind(d, sub) ==
    LET offs == {i \in 0..(Len(d.txt) - Len(sub)) : OccursAt(d.txt, sub, i)}
    IN IF offs = {} THEN -1
       ELSE d.pad + (CHOOSE i \in offs : \A j \in offs : j <= i)

\* bytes.find: the offset of the first occurrence, or -1.  The pad bytes are
\* zero bytes and sub holds none, so an occurrence lies within txt.
BFind(d, sub) ==
    LET offs == {i \in 0..(Len(d.txt) - Len(sub)) : OccursAt(d.txt, sub, i)}
    IN IF offs = {} THEN -1
       ELSE d.pad + (CHOOSE i \in offs : \A j \in offs : i <= j)

\* ------------------------------------------------------------- modify_xml

\* modify_xml with the size test written >= instead of >.
modify_xml_ge(data) ==
    IF BLen(data) >= MAX_DATA_XML
    THEN [ret |-> data, find_called |-> FALSE, log |-> <<"Picture received.">>]
    ELSE LET end_tag_pos == BFind(data, END_TAG) IN
         IF end_tag_pos = -1
         THEN [ret |-> data, find_called |-> TRUE, log |-> <<"XML content">>]
         ELSE [ret |-> BCat(BCat(BTake(data, end_tag_pos), Bytes(NEW_LINE_TXT)),
                            BDrop(data, end_tag_pos)),
               find_called |-> TRUE,
               log |-> <<"XML content", "XML modified">>]

\* One run of modify_xml(data): the value returned, whether data.find was
\* reached, and the lines printed.
modify_xml_run(data) ==
    IF BLen(data) > MAX_DATA_XML
    THEN [ret |-> data, find_called |-> FALSE, log |-> <<"Picture received.">>]
    ELSE LET end_tag_pos == BFind(data, END_TAG) IN
         IF end_tag_pos = -1
         THEN [ret |-> data, find_called |-> TRUE, log |-> <<"XML content">>]
         ELSE [ret |-> BCat(BCat(BTake(data, end_tag_pos), Bytes(NEW_LINE_TXT)),
                            BDrop(data, end_tag_pos)),
               find_called |-> TRUE,
               log |-> <<"XML content", "XML modified">>]

modify_xml(data) == modify_xml_run(data).ret

\* ------------------------------------------------------------------ state

Sess == 1..NumSessions

Legs == {"client", "printer"}

\* The other leg of a session.
Peer(leg) == IF leg = "client" THEN "printer" ELSE "client"

Range(f) == {f[i] : i \in DOMAIN f}

VARIABLES
    stop_event,         \* "undefined" (name not yet bound), "clear" or "set"
    main_pc,            \* main thread: "l315", "l316", "l317", "l320", "exit0", "raised"
    handlers,           \* stack of handle_exit frames on the main thread, each at "l61"
    nsig,               \* signals delivered so far
    lpc,                \* listener thread: "unstarted", "l276", "l279", "l282", "l286",
                        \*   "l293", "l296", "l301", "done"
    client_thread_list, \* the listener's list of started client threads
    l_saw_stop,         \* history: the listener has read stop_event.is_set() as True
    active_at_set,      \* history: the sessions alive when stop_event.set() first ran
    pc,                 \* per session: "unborn", "connect", "loop", "wait", "for", "write",
                        \*   "drain", "done"
    readable,           \* per session: what socket_wait_readable returned, less the
                        \*   sockets the for loop has taken
    sock,               \* per session: the for loop's current socket, or "none"
    data,               \* per session: the chunk read (after modify_xml), not yet written
    exit_flag,          \* per session
    close_socket,       \* per session: the argument of the running socket_close, or "none"
    exc,                \* per session: the exception that ended the thread, or "none"
    ev,                 \* per session: the shutdown / end-of-stream / close events of its
                        \*   two sockets, in order
    rd,                 \* per session and leg: the chunks read in the forwarding loop
    wr,                 \* per session and leg: the chunks written
    drained,            \* per session and leg: the chunks read and discarded by socket_close
    eof_from,           \* history, per session: the leg whose read set exit_flag
    cancelled,          \* history, per session: read stop_event.is_set() as True in the loop
    nevents,            \* chunks delivered and I/O failures raised so far
    xin, xout, xpc,     \* modify_xml on its own: input, run, "in" or "out"
    socket_list,        \* socket_wait_readable on its own: the sockets monitored,
    w_stop,             \*   its stop_event argument ("clear" or "set"),
    w_pc,               \*   its position: "idle", "l182", "l183", "returned",
    w_ret,              \*   the value returned,
    polls               \*   and the select calls that have returned, in order

sig_vars == <<stop_event, main_pc, handlers, nsig, active_at_set>>

lis_vars == <<lpc, client_thread_list, l_saw_stop>>

ses_vars == <<pc, readable, sock, data, exit_flag, close_socket, exc, ev, rd, wr,
              drained, eof_from, cancelled, nevents>>

x_vars == <<xin, xout, xpc>>

w_vars == <<socket_list, w_stop, w_pc, w_ret, polls>>

vars == <<sig_vars, lis_vars, ses_vars, x_vars, w_vars>>

\* A Python list or None.
PyNone == [none |-> TRUE, list |-> <<>>]

PyList(l) == [none |-> FALSE, list |-> l]

NoRun == [ret |-> EMPTY, find_called |-> FALSE, log |-> <<>>]

\* threading.Thread.is_alive
is_alive(t) == pc[t] \notin {"unborn", "done"}

SysInit ==
    /\ stop_event = "undefined"
    /\ main_pc = "l315"
    /\ handlers = <<>>
    /\ nsig = 0
    /\ active_at_set = {}
    /\ lpc = "unstarted"
    /\ client_thread_list = <<>>
    /\ l_saw_stop = FALSE
    /\ pc = [s \in Sess |-> "unborn"]
    /\ readable = [s \in Sess |-> PyList(<<>>)]
    /\ sock = [s \in Sess |-> "none"]
    /\ data = [s \in Sess |-> EMPTY]
    /\ exit_flag = [s \in Sess |-> FALSE]
    /\ close_socket = [s \in Sess |-> "none"]
    /\ exc = [s \in Sess |-> "none"]
    /\ ev = [s \in Sess |-> <<>>]
    /\ rd = [s \in Sess |-> [l \in Legs |-> <<>>]]
    /\ wr = [s \in Sess |-> [l \in Legs |-> <<>>]]
    /\ drained = [s \in Sess |-> [l \in Legs |-> <<>>]]
    /\ eof_from = [s \in Sess |-> "none"]
    /\ cancelled = [s \in Sess |-> FALSE]
    /\ nevents = 0

\* modify_xml is not being run on its own.
XIdle ==
    /\ xin = EMPTY
    /\ xout = NoRun
    /\ xpc = "idle"

\* socket_wait_readable is not being run on its own.
WIdle ==
    /\ socket_list = <<>>
    /\ w_stop = "clear"
    /\ w_pc = "idle"
    /\ w_ret = PyNone
    /\ polls = <<>>

\* The state after the signal handlers are registered (line 312).
Init ==
    /\ SysInit
    /\ XIdle
    /\ WIdle

\* ------------------------------------------------- main thread and signals

\* Line 315: stop_event = threading.Event()
MainCreateEvent ==
    /\ handlers = <<>>
    /\ main_pc = "l315"
    /\ stop_event' = "clear"
    /\ main_pc' = "l316"
    /\ UNCHANGED <<handlers, nsig, active_at_set, lis_vars, ses_vars, x_vars, w_vars>>

\* Line 316: the name listener_thread is rebound from the function to a Thread.
MainCreateThread ==
    /\ handlers = <<>>
    /\ main_pc = "l316"
    /\ main_pc' = "l317"
    /\ UNCHANGED <<stop_event, handlers, nsig, active_at_set, lis_vars, ses_vars, x_vars, w_vars>>

\* Line 317: listener_thread.start(); the listener binds, listens and reaches
\* its loop (lines 267-273).  Line 320 then blocks in join.
MainStartThread ==
    /\ handlers = <<>>
    /\ main_pc = "l317"
    /\ main_pc' = "l320"
    /\ lpc' = "l276"
    /\ UNCHANGED <<stop_event, handlers, nsig, active_at_set, client_thread_list,
                   l_saw_stop, ses_vars, x_vars, w_vars>>

\* SIGINT or SIGTERM before line 315 has run: Python runs handle_exit on the
\* main thread; at line 58 the global stop_event is not bound, and NameError
\* unwinds the handler and the main thread.
SignalNameError ==
    /\ nsig < MaxSignals
    /\ main_pc = "l315"
    /\ nsig' = nsig + 1
    /\ handlers' = <<>>
    /\ main_pc' = "raised"
    /\ UNCHANGED <<stop_event, active_at_set, lis_vars, ses_vars, x_vars, w_vars>>

\* A handler whose line 58 flips the flag instead of setting it.
SignalToggle ==
    /\ nsig < MaxSignals
    /\ main_pc \in {"l316", "l317", "l320"}
    /\ nsig' = nsig + 1
    /\ stop_event' = IF stop_event = "set" THEN "clear" ELSE "set"
    /\ active_at_set' = IF stop_event = "clear" THEN {s \in Sess : is_alive(s)}
                        ELSE active_at_set
    /\ handlers' = <<"l61">> \o handlers
    /\ UNCHANGED <<main_pc, lis_vars, ses_vars, x_vars, w_vars>>

\* SIGINT or SIGTERM: Python runs handle_exit on the main thread, on top of
\* whatever the main thread is doing (a handle_exit blocked in its join
\* included).  Line 58: stop_event.set(); the new frame is then at line 61.
SignalSet ==
    /\ nsig < MaxSignals
    /\ main_pc \in {"l316", "l317", "l320"}
    /\ nsig' = nsig + 1
    /\ stop_event' = "set"
    /\ active_at_set' = IF stop_event = "clear" THEN {s \in Sess : is_alive(s)}
                        ELSE active_at_set
    /\ handlers' = <<"l61">> \o handlers
    /\ UNCHANGED <<main_pc, lis_vars, ses_vars, x_vars, w_vars>>

\* Line 61 before line 317 has run: listener_thread is still the function
\* (AttributeError) or a Thread not yet started (RuntimeError).
HandlerJoinRaises ==
    /\ handlers # <<>> /\ Head(handlers) = "l61"
    /\ main_pc \in {"l316", "l317"}
    /\ handlers' = <<>>
    /\ main_pc' = "raised"
    /\ UNCHANGED <<stop_event, nsig, active_at_set, lis_vars, ses_vars, x_vars, w_vars>>

\* Lines 61-64: listener_thread.join() returns once the listener has ended,
\* and sys.exit(0) raises SystemExit through every frame of the main thread.
HandlerJoinExit ==
    /\ handlers # <<>> /\ Head(handlers) = "l61"
    /\ main_pc = "l320"
    /\ lpc = "done"
    /\ handlers' = <<>>
    /\ main_pc' = "exit0"
    /\ UNCHANGED <<stop_event, nsig, active_at_set, lis_vars, ses_vars, x_vars, w_vars>>

\* --------------------------------------------------------------- listener

\* Sessions whose thread has been started, in accept order 1, 2, ...
NBorn == Cardinality({s \in Sess : pc[s] # "unborn"})

\* Line 276, stop_event set: leave the loop.
ListenerLoopStop ==
    /\ lpc = "l276"
    /\ stop_event = "set"
    /\ lpc' = "l301"
    /\ l_saw_stop' = TRUE
    /\ UNCHANGED <<client_thread_list, sig_vars, ses_vars, x_vars, w_vars>>

\* Line 276, stop_event clear: enter the loop body.
ListenerLoopEnter ==
    /\ lpc = "l276"
    /\ stop_event # "set"
    /\ lpc' = "l279"
    /\ UNCHANGED <<client_thread_list, l_saw_stop, sig_vars, ses_vars, x_vars, w_vars>>

\* Lines 279, 182-186: select reports the listening socket readable (a client
\* is connecting).  A select that times out changes nothing and is a stutter.
ListenerWaitReadable ==
    /\ lpc = "l279"
    /\ stop_event # "set"
    /\ NBorn < NumSessions
    /\ lpc' = "l282"
    /\ UNCHANGED <<client_thread_list, l_saw_stop, sig_vars, ses_vars, x_vars, w_vars>>

\* Lines 279, 182: the wait sees stop_event set and returns None.
ListenerWaitStop ==
    /\ lpc = "l279"
    /\ stop_event = "set"
    /\ lpc' = "l282"
    /\ l_saw_stop' = TRUE
    /\ UNCHANGED <<client_thread_list, sig_vars, ses_vars, x_vars, w_vars>>

\* The test of line 282 with the break left out.
post_wait_break_never == FALSE

\* Line 282: if stop_event.is_set(): break
post_wait_break == stop_event = "set"

ListenerCheckStop ==
    /\ lpc = "l282"
    /\ post_wait_break
    /\ lpc' = "l301"
    /\ l_saw_stop' = TRUE
    /\ UNCHANGED <<client_thread_list, sig_vars, ses_vars, x_vars, w_vars>>

ListenerCheckPass ==
    /\ lpc = "l282"
    /\ ~post_wait_break
    /\ lpc' = "l286"
    /\ UNCHANGED <<client_thread_list, l_saw_stop, sig_vars, ses_vars, x_vars, w_vars>>

\* Lines 286-292: accept the pending connection and start its client_thread.
ListenerAccept ==
    /\ lpc = "l286"
    /\ NBorn < NumSessions
    /\ pc' = [pc EXCEPT ![NBorn + 1] = "connect"]
    /\ lpc' = "l293"
    /\ UNCHANGED <<client_thread_list, l_saw_stop, sig_vars, readable, sock, data,
                   exit_flag, close_socket, exc, ev, rd, wr, drained, eof_from,
                   cancelled, nevents, x_vars, w_vars>>

\* Line 293: client_thread_list.append(thread)
ListenerAppend ==
    /\ lpc = "l293"
    /\ client_thread_list' = Append(client_thread_list, NBorn)
    /\ lpc' = "l296"
    /\ UNCHANGED <<l_saw_stop, sig_vars, ses_vars, x_vars, w_vars>>

\* A clean-up that empties the list.
prune_all(list) == <<>>

\* The filter of lines 296-298 inverted: keeps the threads that have ended.
prune_keep_dead(list) == SelectSeq(list, LAMBDA t : ~is_alive(t))

\* Lines 296-298: keep the threads that are alive.
prune(list) == SelectSeq(list, is_alive)

ListenerPrune ==
    /\ lpc = "l296"
    /\ client_thread_list' = prune(client_thread_list)
    /\ lpc' = "l276"
    /\ UNCHANGED <<l_saw_stop, sig_vars, ses_vars, x_vars, w_vars>>

\* Lines 301-305: join every listed thread, then close the listening socket.
ListenerJoin ==
    /\ lpc = "l301"
    /\ \A i \in DOMAIN client_thread_list : ~is_alive(client_thread_list[i])
    /\ lpc' = "done"
    /\ UNCHANGED <<client_thread_list, l_saw_stop, sig_vars, ses_vars, x_vars, w_vars>>

\* ---------------------------------------------------------- client_thread

\* The byte that tells the traffic of session s from that of the others.
SessionByte(s) == ToString(s)

\* What the peer of a leg may have sent when the proxy reads it: on the client
\* leg a job descriptor or a picture (which happens to hold the end tag), on
\* the printer leg a short reply holding the end tag or a long binary one.
Avail(s, leg) ==
    IF leg = "client"
    THEN {Bytes(<<SessionByte(s)>> \o END_TAG),
          [pad |-> MAX_DATA_XML, txt |-> <<SessionByte(s)>> \o END_TAG]}
    ELSE {Bytes(<<SessionByte(s)>> \o END_TAG),
          [pad |-> MAX_DATA_XML, txt |-> <<SessionByte(s)>>]}

\* sock.recv(max_bytes) on a socket holding the non-empty bytes avail.
recv(avail, max_bytes) ==
    IF BLen(avail) <= max_bytes THEN avail ELSE BTake(avail, max_bytes)

\* Line 229.
max_bytes(sk) == IF sk = "client" THEN MAX_DATA_IMG ELSE MAX_DATA_XML

\* The destination as if the printer socket were one global shared by every thread.
sock_dst_shared(s, sk) == IF sk = "client" THEN <<1, "printer">> ELSE <<s, "client">>

\* Line 243: the socket (session, leg) a chunk read from sk is written to.
sock_dst(s, sk) == IF sk = "client" THEN <<s, "printer">> ELSE <<s, "client">>

\* Line 240: data = modify_xml(data), whichever socket the chunk came from.
rewrite(sk, chunk) == modify_xml(chunk)

\* Leaving a with block closes its socket; closing a closed socket does nothing.
with_close(e, leg) == IF <<leg, "close">> \in Range(e) THEN e ELSE Append(e, <<leg, "close">>)

\* The unwinding as if only the printer socket were held by a with block.
with_exit_inner_only(e) == with_close(e, "printer")

\* An exception leaving lines 207 and 204: printer_socket, then client_socket.
with_exit(e) == with_close(with_close(e, "printer"), "client")

\* The unwinding as if the printer socket were shared by every session.
unwind_shared_printer(s, e) ==
    [t \in Sess |-> IF t = s THEN with_exit(e)
                    ELSE IF pc[t] = "unborn" THEN ev[t]
                    ELSE with_close(ev[t], "printer")]

\* An uncaught exception in the thread of session s, whose events so far are
\* e, unwinds its own with blocks.
unwind(s, e) == [ev EXCEPT ![s] = with_exit(e)]

\* The thread of session s ends with an uncaught exception.
Raise(s, kind, e) ==
    /\ pc' = [pc EXCEPT ![s] = "done"]
    /\ exc' = [exc EXCEPT ![s] = kind]
    /\ ev' = unwind(s, e)

\* An I/O call of session s fails.
RaiseOSError(s, kind) ==
    /\ nevents < MaxEvents
    /\ nevents' = nevents + 1
    /\ Raise(s, kind, ev[s])
    /\ UNCHANGED <<readable, sock, data, exit_flag, close_socket, rd, wr, drained,
                   eof_from, cancelled, sig_vars, lis_vars, x_vars, w_vars>>

\* Lines 207-217: the printer socket is connected.
ConnectOk(s) ==
    /\ pc[s] = "connect"
    /\ pc' = [pc EXCEPT ![s] = "loop"]
    /\ UNCHANGED <<readable, sock, data, exit_flag, close_socket, exc, ev, rd, wr,
                   drained, eof_from, cancelled, nevents, sig_vars, lis_vars, x_vars, w_vars>>

\* A connect failure that is caught and followed by another attempt.
ConnectRetry(s) ==
    /\ pc[s] = "connect"
    /\ nevents < MaxEvents
    /\ nevents' = nevents + 1
    /\ exc' = [exc EXCEPT ![s] = "ConnectionRefusedError"]
    /\ UNCHANGED <<pc, readable, sock, data, exit_flag, close_socket, ev, rd, wr,
                   drained, eof_from, cancelled, sig_vars, lis_vars, x_vars, w_vars>>

\* Line 208: connect raises (refused, unreachable, timed out).
ConnectFails(s) ==
    /\ pc[s] = "connect"
    /\ RaiseOSError(s, "ConnectionRefusedError")

\* The sockets closed after the loop in the opposite order.
close_order_swapped == <<"client", "printer">>

\* Lines 246-250: socket_close(printer_socket), then socket_close(client_socket).
close_order == <<"printer", "client">>

\* Line 220, the loop ends: stop_event is set or exit_flag is.  Lines 247,
\* 151: socket_close(printer_socket) half-closes the socket; readable and
\* sock are not used again.
LoopExit(s) ==
    /\ pc[s] = "loop"
    /\ stop_event = "set" \/ exit_flag[s]
    /\ cancelled' = [cancelled EXCEPT ![s] = (stop_event = "set")]
    /\ close_socket' = [close_socket EXCEPT ![s] = close_order[1]]
    /\ readable' = [readable EXCEPT ![s] = PyList(<<>>)]
    /\ sock' = [sock EXCEPT ![s] = "none"]
    /\ ev' = [ev EXCEPT ![s] = Append(@, <<close_order[1], "shutdown">>)]
    /\ pc' = [pc EXCEPT ![s] = "drain"]
    /\ UNCHANGED <<data, exit_flag, exc, rd, wr, drained, eof_from, nevents,
                   sig_vars, lis_vars, x_vars, w_vars>>

\* Line 220, the loop ends, and the shutdown of line 151 raises (the peer has
\* reset the connection).
LoopExitShutdownError(s) ==
    /\ pc[s] = "loop"
    /\ stop_event = "set" \/ exit_flag[s]
    /\ nevents < MaxEvents
    /\ nevents' = nevents + 1
    /\ cancelled' = [cancelled EXCEPT ![s] = (stop_event = "set")]
    /\ close_socket' = [close_socket EXCEPT ![s] = close_order[1]]
    /\ readable' = [readable EXCEPT ![s] = PyList(<<>>)]
    /\ sock' = [sock EXCEPT ![s] = "none"]
    /\ Raise(s, "OSError", ev[s])
    /\ UNCHANGED <<data, exit_flag, rd, wr, drained, eof_from,
                   sig_vars, lis_vars, x_vars, w_vars>>

\* Line 220, the loop goes on: line 223 calls socket_wait_readable.
LoopEnter(s) ==
    /\ pc[s] = "loop"
    /\ stop_event # "set" /\ ~exit_flag[s]
    /\ pc' = [pc EXCEPT ![s] = "wait"]
    /\ UNCHANGED <<readable, sock, data, exit_flag, close_socket, exc, ev, rd, wr,
                   drained, eof_from, cancelled, nevents, sig_vars, lis_vars, x_vars, w_vars>>

\* The lists select can report for inputs = [client_socket, printer_socket].
ReadyLists == {<<"client">>, <<"printer">>, <<"client", "printer">>}

\* Lines 223, 182-186: select reports some socket readable and the for loop
\* of line 226 starts.  A select that times out changes nothing and is a stutter.
WaitReadable(s) ==
    /\ pc[s] = "wait"
    /\ stop_event # "set"
    /\ \E r \in ReadyLists : readable' = [readable EXCEPT ![s] = PyList(r)]
    /\ pc' = [pc EXCEPT ![s] = "for"]
    /\ UNCHANGED <<sock, data, exit_flag, close_socket, exc, ev, rd, wr, drained,
                   eof_from, cancelled, nevents, sig_vars, lis_vars, x_vars, w_vars>>

\* Lines 223, 182: the wait sees stop_event set, falls off its loop and
\* returns None; line 226 then raises TypeError ('NoneType' object is not
\* iterable), which nothing catches.
WaitStop(s) ==
    /\ pc[s] = "wait"
    /\ stop_event = "set"
    /\ readable' = [readable EXCEPT ![s] = PyNone]
    /\ cancelled' = [cancelled EXCEPT ![s] = TRUE]
    /\ Raise(s, "TypeError", ev[s])
    /\ UNCHANGED <<sock, data, exit_flag, close_socket, rd, wr, drained,
                   eof_from, nevents, sig_vars, lis_vars, x_vars, w_vars>>

\* Lines 226-240: the next readable socket yields a non-empty chunk, which is
\* passed through modify_xml.
ReadData(s) ==
    /\ pc[s] = "for"
    /\ nevents < MaxEvents
    /\ LET sk == Head(readable[s].list) IN
       /\ sock' = [sock EXCEPT ![s] = sk]
       /\ \E avail \in Avail(s, sk) :
             LET chunk == recv(avail, max_bytes(sk)) IN
             /\ rd' = [rd EXCEPT ![s][sk] = Append(@, chunk)]
             /\ data' = [data EXCEPT ![s] = rewrite(sk, chunk)]
    /\ readable' = [readable EXCEPT ![s] = PyList(Tail(@.list))]
    /\ nevents' = nevents + 1
    /\ pc' = [pc EXCEPT ![s] = "write"]
    /\ UNCHANGED <<exit_flag, close_socket, exc, ev, wr, drained, eof_from,
                   cancelled, sig_vars, lis_vars, x_vars, w_vars>>

\* The end-of-stream branch without its break: the for loop goes on to the
\* next readable socket.
ReadEofContinue(s) ==
    /\ pc[s] = "for"
    /\ sock' = [sock EXCEPT ![s] = Head(readable[s].list)]
    /\ readable' = [readable EXCEPT ![s] = PyList(Tail(@.list))]
    /\ exit_flag' = [exit_flag EXCEPT ![s] = TRUE]
    /\ eof_from' = [eof_from EXCEPT ![s] = Head(readable[s].list)]
    /\ pc' = [pc EXCEPT ![s] = IF Tail(readable[s].list) = <<>> THEN "loop" ELSE "for"]
    /\ UNCHANGED <<data, close_socket, exc, ev, rd, wr, drained, cancelled, nevents,
                   sig_vars, lis_vars, x_vars, w_vars>>

\* Lines 226-237: recv returns b'': exit_flag = True; break.  Any socket still
\* in readable is left unread.
ReadEof(s) ==
    /\ pc[s] = "for"
    /\ sock' = [sock EXCEPT ![s] = Head(readable[s].list)]
    /\ readable' = [readable EXCEPT ![s] = PyList(Tail(@.list))]
    /\ exit_flag' = [exit_flag EXCEPT ![s] = TRUE]
    /\ eof_from' = [eof_from EXCEPT ![s] = Head(readable[s].list)]
    /\ pc' = [pc EXCEPT ![s] = "loop"]
    /\ UNCHANGED <<data, close_socket, exc, ev, rd, wr, drained, cancelled, nevents,
                   sig_vars, lis_vars, x_vars, w_vars>>

\* Line 232: recv raises (connection reset).
ReadError(s) ==
    /\ pc[s] = "for"
    /\ RaiseOSError(s, "OSError")

\* sock.send in the place of sendall: one call, which may take only the
\* first byte.
send_once(d) == BTake(d, 1)

\* Line 136: sock.sendall(data) returns once every byte of data is sent.
sendall(d) == d

\* Lines 243-244: sendall writes the whole chunk; then the next socket of
\* the for loop, or line 220 when there is none.
WriteOk(s) ==
    /\ pc[s] = "write"
    /\ LET dst == sock_dst(s, sock[s]) IN
       wr' = [wr EXCEPT ![dst[1]][dst[2]] = Append(@, sendall(data[s]))]
    /\ data' = [data EXCEPT ![s] = EMPTY]
    /\ pc' = [pc EXCEPT ![s] = IF readable[s].list = <<>> THEN "loop" ELSE "for"]
    /\ UNCHANGED <<readable, sock, exit_flag, close_socket, exc, ev, rd, drained,
                   eof_from, cancelled, nevents, sig_vars, lis_vars, x_vars, w_vars>>

\* Line 244: sendall raises (broken pipe, connection reset).
WriteError(s) ==
    /\ pc[s] = "write"
    /\ RaiseOSError(s, "OSError")

\* ----------------------------------------------------------- socket_close

\* A drain that passes what it reads on to the other leg.
drain_keep_forwarding(s, chunk) == [wr EXCEPT ![s][Peer(close_socket[s])] = Append(@, chunk)]

\* Lines 155-157: the chunk read is dropped, nothing is written.
drain_keep(s, chunk) == wr

\* What a peer may still send after the proxy's half-close.
DrainAvail(s, leg) == {Bytes(<<SessionByte(s)>> \o END_TAG)}

\* Lines 154-157: recv(1024) returns data, which is discarded.
DrainData(s) ==
    /\ pc[s] = "drain"
    /\ nevents < MaxEvents
    /\ \E avail \in DrainAvail(s, close_socket[s]) :
          LET chunk == recv(avail, 1024) IN
          /\ drained' = [drained EXCEPT ![s][close_socket[s]] = Append(@, chunk)]
          /\ wr' = drain_keep(s, chunk)
    /\ nevents' = nevents + 1
    /\ UNCHANGED <<pc, readable, sock, data, exit_flag, close_socket, exc, ev, rd,
                   eof_from, cancelled, sig_vars, lis_vars, x_vars, w_vars>>

\* The events of session s once its drain of close_socket has met the end of
\* the stream and line 160 has closed the socket.
drain_done(s) == with_close(Append(ev[s], <<close_socket[s], "eof">>), close_socket[s])

\* Lines 155-160: recv returns b'' and the socket is closed.  After the first
\* socket_close the second one half-closes its socket (lines 250, 151);
\* after the second the thread ends.
DrainEof(s) ==
    /\ pc[s] = "drain"
    /\ IF close_socket[s] = close_order[1]
       THEN /\ ev' = [ev EXCEPT ![s] = Append(drain_done(s), <<close_order[2], "shutdown">>)]
            /\ close_socket' = [close_socket EXCEPT ![s] = close_order[2]]
            /\ pc' = pc
       ELSE /\ ev' = [ev EXCEPT ![s] = drain_done(s)]
            /\ close_socket' = [close_socket EXCEPT ![s] = "none"]
            /\ pc' = [pc EXCEPT ![s] = "done"]
    /\ UNCHANGED <<readable, sock, data, exit_flag, exc, rd, wr, drained,
                   eof_from, cancelled, nevents, sig_vars, lis_vars, x_vars, w_vars>>

\* Lines 155-160 for the first socket_close, and the shutdown of the second
\* one (lines 250, 151) raises.
DrainEofShutdownError(s) ==
    /\ pc[s] = "drain"
    /\ close_socket[s] = close_order[1]
    /\ nevents < MaxEvents
    /\ nevents' = nevents + 1
    /\ close_socket' = [close_socket EXCEPT ![s] = close_order[2]]
    /\ Raise(s, "OSError", drain_done(s))
    /\ UNCHANGED <<readable, sock, data, exit_flag, rd, wr, drained,
                   eof_from, cancelled, sig_vars, lis_vars, x_vars, w_vars>>

\* Line 155: recv raises (connection reset).
DrainError(s) ==
    /\ pc[s] = "drain"
    /\ RaiseOSError(s, "OSError")

\* ------------------------------------------------------------ the program

Next ==
    \/ MainCreateEvent
    \/ MainCreateThread
    \/ MainStartThread
    \/ SignalNameError
    \/ SignalSet
    \/ HandlerJoinRaises
    \/ HandlerJoinExit
    \/ ListenerLoopStop
    \/ ListenerLoopEnter
    \/ ListenerWaitReadable
    \/ ListenerWaitStop
    \/ ListenerCheckStop
    \/ ListenerCheckPass
    \/ ListenerAccept
    \/ ListenerAppend
    \/ ListenerPrune
    \/ ListenerJoin
    \/ \E s \in Sess : ConnectOk(s)
    \/ \E s \in Sess : ConnectFails(s)
    \/ \E s \in Sess : LoopExit(s)
    \/ \E s \in Sess : LoopExitShutdownError(s)
    \/ \E s \in Sess : LoopEnter(s)
    \/ \E s \in Sess : WaitReadable(s)
    \/ \E s \in Sess : WaitStop(s)
    \/ \E s \in Sess : ReadData(s)
    \/ \E s \in Sess : ReadEof(s)
    \/ \E s \in Sess : ReadError(s)
    \/ \E s \in Sess : WriteOk(s)
    \/ \E s \in Sess : WriteError(s)
    \/ \E s \in Sess : DrainData(s)
    \/ \E s \in Sess : DrainEof(s)
    \/ \E s \in Sess : DrainEofShutdownError(s)
    \/ \E s \in Sess : DrainError(s)

Spec == Init /\ [][Next]_vars

\* -------------------------------------------------- modify_xml on its own

\* Fragments of a job descriptor, some of them parts of the end tag.
Pieces ==
    {END_TAG,
     <<"<", "/", "p", "r", "i", "n">>,
     <<"t", ">">>,
     <<"x">>,
     <<"<", "p", "r", "i", "n", "t", ">">>}

RECURSIVE Concats(_)
\* The texts made of at most n pieces.
Concats(n) ==
    IF n = 0 THEN {<<>>}
    ELSE Concats(n - 1) \cup {t \o p : t \in Concats(n - 1), p \in Pieces}

\* The inputs: each text alone, and each text behind enough binary bytes to
\* make the chunk one byte shorter than, as long as, and one byte longer
\* than MAX_DATA_XML.
XInputs ==
    UNION {{[pad |-> q, txt |-> t] :
              q \in {0} \cup {MAX_DATA_XML - Len(t) + d : d \in -1..1}} :
           t \in Concats(MaxPieces)}

InitRewrite ==
    /\ SysInit
    /\ WIdle
    /\ xin \in XInputs
    /\ xout = NoRun
    /\ xpc = "in"

\* data = modify_xml(data)
XApply ==
    /\ xpc = "in"
    /\ xout' = modify_xml_run(xin)
    /\ xpc' = "out"
    /\ UNCHANGED <<xin, sig_vars, lis_vars, ses_vars, w_vars>>

NextRewrite == XApply

SpecRewrite == InitRewrite /\ [][NextRewrite]_vars

\* ------------------------------------------- socket_wait_readable on its own

\* Select calls made in one run of socket_wait_readable.
MaxPolls == 6

\* The while test that never ends the loop (while True).
keep_waiting_always(flag) == TRUE

\* Line 182: while not stop_event.is_set()
keep_waiting(flag) == flag # "set"

\* A test that lets every select result through, the empty one of a timeout too.
is_ready_any(r) == TRUE

\* Line 185: if readable
is_ready(r) == r # <<>>

\* What select can give as its first list for the sockets in list, in the
\* order given: any of them readable, or <<>> when the timeout ran out.
SelectResults(list) ==
    IF Len(list) = 1 THEN {<<>>, list}
    ELSE {<<>>, <<list[1]>>, <<list[2]>>, list}

\* The two calls: line 279 (the listener) and line 223 (a session); the
\* flag may be set already when the call starts.
InitWait ==
    /\ SysInit
    /\ XIdle
    /\ socket_list \in {<<"listener">>, <<"client", "printer">>}
    /\ w_stop \in {"clear", "set"}
    /\ w_pc = "l182"
    /\ w_ret = PyNone
    /\ polls = <<>>

\* Line 58 run by the main thread while the wait is going on.
WaitFlagSet ==
    /\ w_pc \in {"l182", "l183"}
    /\ w_stop = "clear"
    /\ w_stop' = "set"
    /\ UNCHANGED <<socket_list, w_pc, w_ret, polls, sig_vars, lis_vars, ses_vars, x_vars>>

\* Line 182, the test passes: select is called (line 183).
WaitLoopGo ==
    /\ w_pc = "l182"
    /\ keep_waiting(w_stop)
    /\ Len(polls) < MaxPolls
    /\ w_pc' = "l183"
    /\ UNCHANGED <<socket_list, w_stop, w_ret, polls, sig_vars, lis_vars, ses_vars, x_vars>>

\* Line 182, the test fails: the function falls off its end and returns None.
WaitLoopEnd ==
    /\ w_pc = "l182"
    /\ ~keep_waiting(w_stop)
    /\ w_ret' = PyNone
    /\ w_pc' = "returned"
    /\ UNCHANGED <<socket_list, w_stop, polls, sig_vars, lis_vars, ses_vars, x_vars>>

\* Lines 183-186: select returns; a result that passes the test of line 185
\* is returned, any other leads back to line 182.  `late' records that the
\* flag was set when select returned.
WaitSelect ==
    /\ w_pc = "l183"
    /\ \E readable_ \in SelectResults(socket_list) :
          /\ polls' = Append(polls, [ready |-> readable_, late |-> w_stop = "set"])
          /\ IF is_ready(readable_)
             THEN w_ret' = PyList(readable_) /\ w_pc' = "returned"
             ELSE w_ret' = w_ret /\ w_pc' = "l182"
    /\ UNCHANGED <<socket_list, w_stop, sig_vars, lis_vars, ses_vars, x_vars>>

NextWait ==
    \/ WaitFlagSet
    \/ WaitLoopGo
    \/ WaitLoopEnd
    \/ WaitSelect

SpecWait == InitWait /\ [][NextWait]_vars

\* ----------------------------------------------------------------- claims

\* The end tag occurs somewhere in the text t.
HasEndTag(t) == \E i \in 0..(Len(t) - Len(END_TAG)) : OccursAt(t, END_TAG, i)

\* The events of a session whose two legs each went through half-close,
\* drain to the end of the stream and close, the printer leg first.
NormalClose ==
    <<<<"printer", "shutdown">>, <<"printer", "eof">>, <<"printer", "close">>,
      <<"client", "shutdown">>, <<"client", "eof">>, <<"client", "close">>>>

IsPrefix(a, b) == Len(a) <= Len(b) /\ SubSeq(b, 1, Len(a)) = a

BothClosed(s) ==
    /\ <<"client", "close">> \in Range(ev[s])
    /\ <<"printer", "close">> \in Range(ev[s])

IOErrors == {"OSError", "ConnectionRefusedError"}

\* C1, as claimed: every chunk read from the printer leg is written to the
\* client leg unmodified, the end tag in it or not.
C1_UpstreamUnmodified ==
    \A s \in Sess : \A i \in 1..Len(wr[s]["client"]) :
        wr[s]["client"][i] = rd[s]["printer"][i]

\* C2, as claimed: a session that saw the cancellation while forwarding, and
\* met no I/O failure, ends having half-closed, drained and closed both legs.
C2_CancelRunsCloseSequence ==
    \A s \in Sess :
        (pc[s] = "done" /\ cancelled[s] /\ exc[s] \notin IOErrors)
            => ev[s] = NormalClose

\* C3: for a chunk no longer than MAX_DATA_XML, modify_xml returns the chunk
\* with the directive line inserted once, right before the first end tag, and
\* returns the chunk itself when it holds no end tag.
C3_RewriteFirstEndTag ==
    (xpc = "out" /\ BLen(xin) <= MAX_DATA_XML) =>
        IF HasEndTag(xin.txt)
        THEN \E k \in 0..(Len(xin.txt) - Len(END_TAG)) :
                /\ OccursAt(xin.txt, END_TAG, k)
                /\ \A j \in 0..(k - 1) : ~OccursAt(xin.txt, END_TAG, j)
                /\ xout.ret = [pad |-> xin.pad,
                               txt |-> SubSeq(xin.txt, 1, k) \o NEW_LINE_TXT
                                       \o SubSeq(xin.txt, k + 1, Len(xin.txt))]
        ELSE xout.ret = xin

\* C3's case: a descriptor-sized chunk with two end tags has been rewritten.
C3_Witness ==
    /\ xpc = "out"
    /\ BLen(xin) <= MAX_DATA_XML
    /\ Cardinality({i \in 0..Len(xin.txt) : OccursAt(xin.txt, END_TAG, i)}) = 2
    /\ xout.ret # xin

\* C4: a chunk longer than MAX_DATA_XML is returned unchanged without the
\* end tag being searched for; a chunk exactly MAX_DATA_XML long is searched,
\* and rewritten when it holds the end tag.
C4_PictureUnchanged ==
    xpc = "out" =>
        /\ BLen(xin) > MAX_DATA_XML => (xout.ret = xin /\ ~xout.find_called)
        /\ BLen(xin) = MAX_DATA_XML =>
              /\ xout.find_called
              /\ HasEndTag(xin.txt) => BLen(xout.ret) = BLen(xin) + Len(NEW_LINE_TXT)

\* C4's case: a chunk one byte over the limit that holds the end tag has
\* gone through modify_xml.
C4_Witness ==
    /\ xpc = "out"
    /\ BLen(xin) = MAX_DATA_XML + 1
    /\ HasEndTag(xin.txt)

\* C5: once stop_event is set, the main thread ends (handle_exit reaches
\* sys.exit, or an exception leaves it) and the listener returns only when
\* every session alive at the time stop_event was set has ended with both
\* its sockets closed.
C5_NoExitBeforeSessionsClosed ==
    (stop_event = "set" /\ (main_pc \in {"exit0", "raised"} \/ lpc = "done")) =>
        \A s \in active_at_set : pc[s] = "done" /\ BothClosed(s)

\* C5's case: the handler has exited after waiting for a session that was
\* alive when stop_event was set and that closed both legs itself.
C5_Witness ==
    /\ main_pc = "exit0"
    /\ \E s \in active_at_set : exc[s] = "none" /\ ev[s] = NormalClose

\* C6: once the listener has read stop_event as set it starts no session;
\* when it leaves its loop every live session is in client_thread_list, and
\* when it returns every started session has ended.
C6_NoAcceptAfterObserved ==
    [][/\ l_saw_stop => \A s \in Sess : pc[s] = "unborn" => pc'[s] = "unborn"
       /\ lpc' = "l301" =>
            \A s \in Sess : pc'[s] \notin {"unborn", "done"}
                                => s \in Range(client_thread_list')
       /\ lpc' = "done" => \A s \in Sess : pc'[s] \in {"unborn", "done"}]_vars

\* C6's case: the listener has returned, and one of the sessions it waited
\* for was started after stop_event had been set (its accept raced the signal).
C6_Witness ==
    /\ lpc = "done"
    /\ stop_event = "set"
    /\ \E s \in Sess : pc[s] = "done" /\ s \notin active_at_set /\ ev[s] = NormalClose

\* C7: a session that has ended has both sockets closed, and a step that
\* reads a chunk while draining writes nothing to any socket.
C7_ClosedAndDrainDiscarded ==
    [][/\ \A s \in Sess : pc'[s] = "done" => BothClosed(s)'
       /\ drained' # drained => wr' = wr]_vars

\* C7's case: the client sent end-of-stream, the cancellation came, data was
\* drained and discarded, and the session has ended.
C7_Witness ==
    \E s \in Sess :
        /\ pc[s] = "done"
        /\ eof_from[s] = "client"
        /\ stop_event = "set"
        /\ drained[s]["printer"] # <<>>

SessionState(b) ==
    <<pc[b], readable[b], sock[b], data[b], exit_flag[b], close_socket[b], exc[b],
      ev[b], rd[b], wr[b], drained[b]>>

\* C9: the step that ends session a, however it ends, changes nothing of any
\* other session, of the listener or of stop_event.
C9_SessionIndependence ==
    [][\A a \in Sess :
          (pc[a] # "done" /\ pc'[a] = "done") =>
              /\ \A b \in Sess \ {a} : SessionState(b)' = SessionState(b)
              /\ lpc' = lpc
              /\ client_thread_list' = client_thread_list
              /\ stop_event' = stop_event]_vars

\* C9's case: one session has died of an I/O failure while another is in
\* the middle of forwarding a chunk and the listener is in its loop.
C9_Witness ==
    \E a, b \in Sess :
        /\ a # b
        /\ pc[a] = "done" /\ exc[a] = "OSError"
        /\ pc[b] = "write"
        /\ lpc = "l279"

\* out is in with the directive line inserted somewhere, or in itself.
Inserted(in, out) ==
    \/ out = in
    \/ /\ out.pad = in.pad
       /\ \E k \in 0..Len(in.txt) :
             out.txt = SubSeq(in.txt, 1, k) \o NEW_LINE_TXT
                       \o SubSeq(in.txt, k + 1, Len(in.txt))

\* C10: on each leg the chunks written are, in order, the chunks read from
\* the other leg of the same session (the last one may still be in flight),
\* each with at most the directive inserted; and no byte of another
\* session's traffic is among them.
C10_OrderAndIsolation ==
    \A s \in Sess : \A leg \in Legs :
        LET w == wr[s][leg]
            r == rd[s][Peer(leg)]
        IN /\ Len(w) <= Len(r)
           /\ Len(r) <= Len(w) + 1
           /\ \A i \in 1..Len(w) :
                 /\ Inserted(r[i], w[i])
                 /\ \A k \in 1..Len(w[i].txt) :
                       \A t \in Sess \ {s} : w[i].txt[k] # SessionByte(t)

\* C10's case: two different chunks have been relayed in one direction of a
\* session, in the order read.
C10_Witness ==
    \E s \in Sess :
        /\ Len(wr[s]["printer"]) = 2
        /\ wr[s]["printer"][1] # wr[s]["printer"][2]
        /\ rd[s]["client"][1] # rd[s]["client"][2]

\* C11, as claimed: once a termination signal has been delivered, at whatever
\* point after line 312, stop_event is set and the main thread is waiting
\* for the listener or has left through sys.exit(0); no exception ends it.
C11_SignalAlwaysShutsDown ==
    nsig > 0 => (stop_event = "set" /\ main_pc # "raised")

\* C12: no step takes stop_event from set to anything else; the delivery of a
\* signal while stop_event is set changes nothing of the flag, the listener,
\* the sessions or the main thread's position (it only stacks one more
\* handle_exit frame); and the main thread reaches sys.exit(0) only when the
\* listener has returned and no session is alive.
C12_MonotonicAndRedeliveryNoOp ==
    [][/\ stop_event = "set" => stop_event' = "set"
       /\ (nsig' # nsig /\ stop_event = "set") =>
             UNCHANGED <<stop_event, main_pc, active_at_set, lis_vars, ses_vars>>
       /\ main_pc' = "exit0" =>
             (lpc' = "done" /\ \A s \in Sess : pc'[s] \in {"unborn", "done"})]_vars

\* C12's case: a second signal was delivered (stop_event was set by the
\* first), and the process has exited after the listener waited for a session
\* that was alive when the flag was set.
C12_Witness ==
    /\ nsig = 2
    /\ main_pc = "exit0"
    /\ active_at_set # {}

\* Nothing has been read from, written to or drained from a leg of session s.
NoTraffic(s) ==
    \A leg \in Legs : rd[s][leg] = <<>> /\ wr[s][leg] = <<>> /\ drained[s][leg] = <<>>

\* C13: the step in which the connect of session s raises ends the session
\* with its client socket closed and changes nothing of the other sessions,
\* the listener, the flag or the main thread; from then on the session stays
\* ended (no second attempt) and no byte is read or written on its legs.
C13_ConnectFailureContained ==
    [][\A s \in Sess :
          /\ (exc[s] = "none" /\ exc'[s] = "ConnectionRefusedError") =>
                /\ pc[s] = "connect"
                /\ <<"client", "close">> \in Range(ev'[s])
                /\ \A b \in Sess \ {s} : SessionState(b)' = SessionState(b)
                /\ UNCHANGED <<lis_vars, sig_vars>>
          /\ exc'[s] = "ConnectionRefusedError" =>
                (pc'[s] = "done" /\ NoTraffic(s)')]_vars

\* C13's case: the connect of one session failed, and a session accepted
\* after it has forwarded a chunk while the listener is waiting in its loop.
C13_Witness ==
    \E a, b \in Sess :
        /\ a < b
        /\ exc[a] = "ConnectionRefusedError"
        /\ wr[b]["printer"] # <<>>
        /\ lpc = "l279"

\* C14, as claimed (its safety half): once stop_event is set the main thread
\* never ends otherwise than through sys.exit(0); an exception leaving the
\* main thread is exit status 1.
C14_SetLeadsOnlyToExitZero ==
    stop_event = "set" => main_pc # "raised"

\* C15: socket_wait_readable returns either the non-empty list the last
\* select gave, made of monitored sockets, or None with stop_event set and
\* every select before it timed out; so a select that times out while the
\* flag is clear never ends the wait, and the value returned is never an
\* empty list.
C15_WaitReturnsReadyOrCancelled ==
    w_pc = "returned" =>
        \/ /\ ~w_ret.none
           /\ w_ret.list # <<>>
           /\ Range(w_ret.list) \subseteq Range(socket_list)
           /\ polls # <<>>
           /\ polls[Len(polls)].ready = w_ret.list
        \/ /\ w_ret = PyNone
           /\ w_stop = "set"
           /\ \A i \in 1..Len(polls) : polls[i].ready = <<>>

\* C15's case: two selects timed out with the flag clear, the wait went on,
\* and the third select's ready sockets were returned.
C15_Witness ==
    /\ w_pc = "returned"
    /\ ~w_ret.none
    /\ Len(polls) = 3
    /\ polls[1].ready = <<>> /\ ~polls[1].late
    /\ polls[2].ready = <<>> /\ ~polls[2].late
    /\ w_stop = "clear"

\* The selects that ran out their timeout and returned with the flag set.
LatePolls == {i \in 1..Len(polls) : polls[i].late /\ polls[i].ready = <<>>}

\* C16: in one wait at most one select runs out its timeout after
\* stop_event is set (the one under way when it was set), and with the flag
\* set the test of line 182 leads nowhere but to the return.
C16_WokenWithinOnePoll ==
    [][/\ Cardinality(LatePolls') <= 1
       /\ (w_pc = "l182" /\ w_stop = "set" /\ w_pc' # w_pc) => w_pc' = "returned"]_vars

\* C16's case: the flag was set during a select, that select timed out, and
\* the wait has returned None without another select.
C16_Witness ==
    /\ w_pc = "returned"
    /\ w_ret = PyNone
    /\ LatePolls # {}
    /\ LatePolls = {Len(polls)}

\* C17: the step in which a recv or sendall of the forwarding loop raises
\* ends the session with both its sockets closed, reads and writes nothing,
\* and changes nothing of the other sessions, the listener, the flag or the
\* main thread; from then on nothing of the session changes (no retry).
C17_IOFailureContained ==
    [][\A s \in Sess :
          /\ (exc[s] = "none" /\ exc'[s] = "OSError" /\ pc[s] \in {"for", "write"}) =>
                /\ pc'[s] = "done"
                /\ BothClosed(s)'
                /\ rd'[s] = rd[s] /\ wr'[s] = wr[s]
                /\ \A b \in Sess \ {s} : SessionState(b)' = SessionState(b)
                /\ UNCHANGED <<lis_vars, sig_vars>>
          /\ exc[s] = "OSError" => SessionState(s)' = SessionState(s)]_vars

\* C17's case: a session died of a failed write (its chunk was never
\* written), another session closed both legs in the normal way, and the
\* process has since exited with status 0.
C17_Witness ==
    \E a, b \in Sess :
        /\ a # b
        /\ exc[a] = "OSError" /\ data[a] # EMPTY
        /\ ev[b] = NormalClose
        /\ main_pc = "exit0"

\* C18, as claimed: at every instant every session whose thread has been
\* started and has not ended is in client_thread_list.
C18_LiveSessionsAlwaysListed ==
    \A s \in Sess : is_alive(s) => s \in Range(client_thread_list)

\* C18, amended: client_thread_list changes only in a step of the listener,
\* by the append of line 293 or by the clean-up of lines 296-298, which
\* keeps the order and drops only threads that have ended; and every live
\* session is in the list except while the listener is between lines 292
\* and 293, so in particular whenever it tests the flag or joins.
C18_RegistryCoversLiveSessions ==
    [][/\ client_thread_list' # client_thread_list =>
            \/ /\ lpc = "l293"
               /\ \E t \in Sess : client_thread_list' = Append(client_thread_list, t)
            \/ /\ lpc = "l296"
               /\ client_thread_list' =
                     SelectSeq(client_thread_list,
                               LAMBDA t : t \in Range(client_thread_list'))
               /\ \A t \in Range(client_thread_list) \ Range(client_thread_list') :
                     pc[t] = "done"
       /\ lpc' # "l293" =>
            \A s \in Sess : pc'[s] \notin {"unborn", "done"}
                                => s \in Range(client_thread_list')]_vars

\* C18's case: an ended session has been dropped from the list, a live one
\* is still in it, and the listener is about to join the listed threads.
C18_Witness ==
    /\ lpc = "l301"
    /\ \E a, b \in Sess :
          /\ pc[a] = "done" /\ a \notin Range(client_thread_list)
          /\ is_alive(b) /\ b \in Range(client_thread_list)

\* The chunks session s has read for forwarding and not yet written.
InFlight(s) ==
    (Len(rd[s]["client"]) + Len(rd[s]["printer"]))
        - (Len(wr[s]["client"]) + Len(wr[s]["printer"]))

\* C19: a session has at most one chunk in flight; it reads for forwarding
\* only when none is, and the next thing it does to a socket of its legs is
\* to write that chunk, whole, as modify_xml returned it, to the leg opposite
\* the one it was read from.
C19_ReadWriteAlternate ==
    [][\A s \in Sess :
          /\ InFlight(s)' \in {0, 1}
          /\ rd'[s] # rd[s] => (InFlight(s) = 0 /\ InFlight(s)' = 1)
          /\ wr'[s] # wr[s] =>
                /\ InFlight(s) = 1 /\ InFlight(s)' = 0
                /\ rd'[s] = rd[s]
                /\ LET from == sock[s]
                       chunk == rd[s][from][Len(rd[s][from])]
                   IN wr'[s] = [wr[s] EXCEPT ![Peer(from)] = Append(@, modify_xml(chunk))]]_vars

\* C19's case: a session has read and written a chunk in one direction and
\* then read and written one in the other.
C19_Witness ==
    \E s \in Sess :
        /\ Len(wr[s]["printer"]) = 1
        /\ Len(wr[s]["client"]) = 1
        /\ InFlight(s) = 0

\* C20: the step in which a recv of the forwarding loop returns b'' records
\* no chunk, runs no modify_xml (data keeps its value) and writes nothing,
\* sets exit_flag and goes to the test of line 220; from then on the session
\* reads nothing more for forwarding and writes nothing, whatever is still
\* readable on either leg: it only leaves the loop, drains and ends.
C20_EofEndsForwarding ==
    [][\A s \in Sess :
          /\ (eof_from[s] = "none" /\ eof_from'[s] # "none") =>
                /\ data'[s] = data[s]
                /\ exit_flag'[s]
                /\ pc'[s] = "loop"
          /\ eof_from'[s] # "none" =>
                /\ rd'[s] = rd[s]
                /\ wr'[s] = wr[s]
                /\ pc'[s] \in {"loop", "drain", "done"}]_vars

\* C20's case: select reported both sockets, the client's recv returned b''
\* after a chunk had been forwarded, and the printer socket, still
\* readable, is left unread.
C20_Witness ==
    \E s \in Sess :
        /\ eof_from[s] = "client"
        /\ pc[s] = "loop"
        /\ readable[s] = PyList(<<"printer">>)
        /\ wr[s]["printer"] # <<>>

====
